---- MODULE Spec2Model ----
(***************************************************************************)
(* Model of kubectl-rescale (pkg/cmd, printed in src/README.md from line   *)
(* 55 on, and src/kubectl-rescale.go): one run of the plugin against a     *)
(* cluster holding at most one Deployment and one StatefulSet named "x".   *)
(* Every call of the client (Get, GetScale, UpdateScale) is one step of    *)
(* the run; between two steps the cluster may move the observed replica    *)
(* count towards the desired one, and another client may write the scale.  *)
(***************************************************************************)
EXTENDS Integers, Sequences, FiniteSets, TLC

\* ------------------------------------------------------------------ bounds
MaxReplicas == 1
MaxWaitSeconds == 2
MaxArgs == 2
MaxExtWrites == 1

\* ------------------------------------------------------- program constants
ScaleUpTries == 60

\* -------------------------------------------------- strings, as characters
PrefixDeployment == <<"d","e","p","l","o","y","m","e","n","t","/">>
PrefixDeploy == <<"d","e","p","l","o","y","/">>
PrefixStatefulset == <<"s","t","a","t","e","f","u","l","s","e","t","/">>
PrefixSts == <<"s","t","s","/">>

\* the name under which the cluster may hold a Deployment and a StatefulSet,
\* and a name under which it holds nothing
NameX == <<"x">>

NameY == <<"y">>

\* strings.HasPrefix
HasPrefix(s, p) == Len(s) >= Len(p) /\ SubSeq(s, 1, Len(p)) = p

\* a TrimPrefix that keeps the last character of the prefix
TrimPrefixShort(s, p) == IF HasPrefix(s, p) THEN SubSeq(s, Len(p), Len(s)) ELSE s

\* strings.TrimPrefix
TrimPrefix(s, p) == IF HasPrefix(s, p) THEN SubSeq(s, Len(p) + 1, Len(s)) ELSE s

\* the if/else-if chain of Complete that sets o.targetName and o.targetKind
ParseTarget(a) ==
  IF HasPrefix(a, PrefixDeployment)
    THEN [name |-> TrimPrefix(a, PrefixDeployment), kind |-> "deployment"]
  ELSE IF HasPrefix(a, PrefixDeploy)
    THEN [name |-> TrimPrefix(a, PrefixDeploy), kind |-> "deployment"]
  ELSE IF HasPrefix(a, PrefixStatefulset)
    THEN [name |-> TrimPrefix(a, PrefixStatefulset), kind |-> "statefulset"]
  ELSE IF HasPrefix(a, PrefixSts)
    THEN [name |-> TrimPrefix(a, PrefixSts), kind |-> "statefulset"]
  ELSE [name |-> a, kind |-> "unknown"]

\* -------------------------------------------------------------- the inputs
Kinds == {"deployment", "statefulset"}

\* positional arguments a user may give
ArgSet ==
  { NameX,
    PrefixDeploy \o NameY,
    PrefixDeployment \o NameX,
    PrefixSts \o NameX,
    PrefixStatefulset \o NameY,
    PrefixDeploy \o PrefixSts \o NameX,
    PrefixSts \o PrefixDeployment \o NameX,
    <<"s","t","s">> }

\* the argument lists: none, one argument, one argument followed by others
ArgLists ==
  { [j \in 1..n |-> IF j = 1 THEN a ELSE NameX] : a \in ArgSet, n \in 0..MaxArgs }

\* values of --max-wait-seconds
WaitValues == (-1)..MaxWaitSeconds

\* what loading the kubeconfig can give: a usable configuration, a raw
\* config that cannot be loaded, a REST config that cannot be built, no
\* (or an unknown) context, a clientset that cannot be built
ConfigStates == {"ok", "rawConfigError", "restConfigError", "noContext", "clientError"}

NoErr == [kind |-> "none", target |-> -1]
Err(k) == [kind |-> k, target |-> -1]
\* "... has not reached %d replicas after %d tries"
TimeoutErr(t) == [kind |-> "timeout", target |-> t]

\* spec: Spec.Replicas as the run set it; status: Status.Replicas as read;
\* read: the desired count GetScale answered, the state of the workload the
\* Scale that UpdateScale sends back was read at
NoScale == [spec |-> -1, status |-> -1, read |-> -1]

VARIABLES
  exists,           \* cluster: which kinds hold an object named NameX
  desired,          \* cluster: spec.replicas of each object
  observed,         \* cluster: status.replicas of each object
  extWrites,        \* number of scale writes made by other clients
  pc,               \* position of the run
  config,           \* outcome of loading the configuration
  args,             \* the positional arguments
  flagWait,         \* the value of --max-wait-seconds
  targetName,       \* o.targetName
  targetKind,       \* o.targetKind
  maxWaitSeconds,   \* o.maxWaitSeconds
  originalReplicas, \* the local of ScaleDeployment / ScaleStatefulSet
  scale,            \* the Scale held by Update*Scale between its two calls
  i,                \* the loop counter of WaitFor*Replicas
  result,           \* "running", "success", "error" (returned), "panic"
  err,              \* the error the run ended with
  exitCode,         \* the exit code of the process, -1 while it runs
  log,              \* the calls made to the API, in order
  fetches,          \* GetScale calls made by each of the two waits
  hit,              \* per wait: an attempt's GetScale answered the target count
  desiredBefore,    \* spec.replicas of the workload when the cycle fetched it
  apiFailed         \* some API call has returned an error

cluster == <<exists, desired, observed, extWrites>>
options == <<config, args, flagWait, targetName, targetKind, maxWaitSeconds>>
locals == <<originalReplicas, scale, i>>
history == <<log, fetches, hit, desiredBefore, apiFailed>>
vars == <<exists, desired, observed, extWrites, pc, config, args, flagWait,
          targetName, targetKind, maxWaitSeconds, originalReplicas, scale, i,
          result, err, exitCode, log, fetches, hit, desiredBefore, apiFailed>>

\* ------------------------------------------------------------------- Init
\* the cluster holds any of the two workloads, with any desired and observed
\* count (the same counts for both when it holds both)
Init ==
  /\ exists \in [Kinds -> BOOLEAN]
  /\ \E d \in 0..MaxReplicas, o \in 0..MaxReplicas :
       /\ desired = [k \in Kinds |-> IF exists[k] THEN d ELSE 0]
       /\ observed = [k \in Kinds |-> IF exists[k] THEN o ELSE 0]
  /\ extWrites = 0
  /\ pc = "complete"
  /\ config = "ok"
  /\ args = <<>>
  /\ flagWait = 0
  /\ targetName = <<>>
  /\ targetKind = ""
  /\ maxWaitSeconds = 0
  /\ originalReplicas = -1
  /\ scale = NoScale
  /\ i = 0
  /\ result = "running"
  /\ err = NoErr
  /\ exitCode = -1
  /\ log = <<>>
  /\ fetches = [down |-> 0, up |-> 0]
  /\ hit = [down |-> FALSE, up |-> FALSE]
  /\ desiredBefore = -1
  /\ apiFailed = FALSE

\* a main that does not look at the error Execute returns
ExitCodeIgnoringError(r) == IF r = "panic" THEN 2 ELSE 0

\* main: os.Exit(1) when Execute returns an error, 0 when main returns; a
\* panic that nothing recovers makes the Go runtime exit with code 2
ExitCode(r) ==
  CASE r = "success" -> 0
    [] r = "error" -> 1
    [] r = "panic" -> 2

\* the run ends: a returned error, a panic or success
Finish(r, e) ==
  /\ pc' = "done"
  /\ result' = r
  /\ err' = e
  /\ exitCode' = ExitCode(r)

Continue(p) ==
  /\ pc' = p
  /\ UNCHANGED <<result, err, exitCode>>

\* --------------------------------------------------------------- Complete
\* a test of the flag that lets 0 through
InvalidWaitNegative(w) == w < 0

\* the test of --max-wait-seconds
InvalidWait(w) == w <= 0

Complete ==
  /\ pc = "complete"
  /\ \E c \in ConfigStates, as \in ArgLists, w \in WaitValues :
       /\ config' = c
       /\ args' = as
       /\ flagWait' = w
       /\ IF c = "rawConfigError"
            THEN /\ Finish("error", Err("config"))
                 /\ UNCHANGED <<maxWaitSeconds, targetName, targetKind>>
          ELSE IF c = "restConfigError"
            THEN /\ Finish("panic", Err("config"))
                 /\ UNCHANGED <<maxWaitSeconds, targetName, targetKind>>
          ELSE IF c = "noContext"
            THEN /\ Finish("error", Err("context"))
                 /\ UNCHANGED <<maxWaitSeconds, targetName, targetKind>>
          ELSE /\ maxWaitSeconds' = w
               /\ IF InvalidWait(w)
                    THEN /\ Finish("error", Err("validation"))
                         /\ UNCHANGED <<targetName, targetKind>>
                  ELSE IF Len(as) # 1
                    THEN /\ Finish("error", Err("validation"))
                         /\ UNCHANGED <<targetName, targetKind>>
                  ELSE /\ targetName' = ParseTarget(as[1]).name
                       /\ targetKind' = ParseTarget(as[1]).kind
                       /\ Continue("run")
  /\ UNCHANGED <<cluster, locals, history>>

\* ------------------------------------------------------------ the client
Call(op, k, n) == [op |-> op, kind |-> k, replicas |-> n]

\* whether the cluster holds an object of kind k named name
Exists(k, name) == name = NameX /\ exists[k]

\* what Deployments(ns).Get / StatefulSets(ns).Get can answer: the object,
\* a not-found status, another status error, a transport error
GetOutcomes(k, name) ==
  IF Exists(k, name) THEN {"ok", "status", "transport"}
                     ELSE {"notfound", "status", "transport"}

\* what GetScale and UpdateScale can answer
ScaleOutcomes == {"ok", "err"}

\* an answer that is an API failure (not-found is an answer, not a failure)
IsFailure(r) == r \in {"status", "transport", "err", "errZero", "errNil"}

\* a GetDeployment / GetStatefulSet that does not tell not-found from the
\* other status errors
GetWorkloadNoNotFound(r) ==
  CASE r = "ok" -> "ok"
    [] r \in {"notfound", "status"} -> "error"
    [] OTHER -> "panic"

\* a Get that takes a status error for not-found
GetWorkloadStatusAsNotFound(r) ==
  CASE r = "ok" -> "ok"
    [] r \in {"notfound", "status"} -> "notfound"
    [] OTHER -> "panic"

\* a Get that returns every error to its caller
GetWorkloadAllReturned(r) ==
  CASE r = "ok" -> "ok"
    [] r = "notfound" -> "notfound"
    [] OTHER -> "error"

\* GetDeployment / GetStatefulSet: not-found and status errors are returned,
\* any other error panics
GetWorkload(r) ==
  CASE r = "ok" -> "ok"
    [] r = "notfound" -> "notfound"
    [] r = "status" -> "error"
    [] OTHER -> "panic"

\* the if / else-if / else on o.targetKind that ends Run
Dispatch(kind) ==
  IF kind \in Kinds
    THEN Continue("scale_get")
    ELSE Finish("error", Err("notfound"))

\* -------------------------------------------------------------------- Run
\* a resolution that tries the StatefulSet first
FirstLookupStatefulSet == "statefulset"

\* the kind Run looks up first for a bare name
FirstLookup == "deployment"

\* the kind Run looks up when the first is not found
SecondLookup == "statefulset"

\* Run up to its first API call: the clientset, the context, the namespace
RunBegin ==
  /\ pc = "run"
  /\ IF config = "clientError"
       THEN Finish("panic", Err("config"))
     ELSE IF targetKind = "unknown"
       THEN Continue("resolve_deployment")
     ELSE Dispatch(targetKind)
  /\ UNCHANGED <<cluster, options, locals, history>>

\* Run, kind unknown: the lookup of a Deployment
RunResolveDeployment ==
  /\ pc = "resolve_deployment"
  /\ \E r \in GetOutcomes(FirstLookup, targetName) :
       /\ log' = Append(log, Call("Get", FirstLookup, -1))
       /\ apiFailed' = (apiFailed \/ IsFailure(r))
       /\ CASE GetWorkload(r) = "ok" ->
                 /\ targetKind' = FirstLookup
                 /\ Dispatch(FirstLookup)
            [] GetWorkload(r) = "notfound" ->
                 /\ Continue("resolve_statefulset")
                 /\ UNCHANGED targetKind
            [] GetWorkload(r) = "error" ->
                 /\ Finish("error", Err(r))
                 /\ UNCHANGED targetKind
            [] OTHER ->
                 /\ Finish("panic", Err(r))
                 /\ UNCHANGED targetKind
  /\ UNCHANGED <<cluster, config, args, flagWait, targetName, maxWaitSeconds,
                 locals, fetches, hit, desiredBefore>>

\* Run, kind unknown, no such Deployment: the lookup of a StatefulSet
RunResolveStatefulSet ==
  /\ pc = "resolve_statefulset"
  /\ \E r \in GetOutcomes(SecondLookup, targetName) :
       /\ log' = Append(log, Call("Get", SecondLookup, -1))
       /\ apiFailed' = (apiFailed \/ IsFailure(r))
       /\ CASE GetWorkload(r) = "ok" ->
                 /\ targetKind' = SecondLookup
                 /\ Dispatch(SecondLookup)
            [] GetWorkload(r) = "notfound" ->
                 /\ Finish("error", Err("notfound"))
                 /\ UNCHANGED targetKind
            [] GetWorkload(r) = "error" ->
                 /\ Finish("error", Err(r))
                 /\ UNCHANGED targetKind
            [] OTHER ->
                 /\ Finish("panic", Err(r))
                 /\ UNCHANGED targetKind
  /\ UNCHANGED <<cluster, config, args, flagWait, targetName, maxWaitSeconds,
                 locals, fetches, hit, desiredBefore>>

\* ------------------------------------ ScaleDeployment / ScaleStatefulSet
\* the replica count the two functions record as originalReplicas
OriginalReplicas(k) == observed[k]

\* a Target that scales back up to 0 instead of originalReplicas
TargetAlwaysZero(phase) == 0

\* the two phases of the cycle
Target(phase) == IF phase = "down" THEN 0 ELSE originalReplicas

\* a cycle that gives both waits the budget of the flag
TriesFromFlag(phase) == maxWaitSeconds

\* a loop that runs while i <= tries: one attempt more than the budget
TriesOneMore(phase) ==
  (IF phase = "down" THEN maxWaitSeconds ELSE ScaleUpTries) + 1

\* the tries each wait is given
Tries(phase) == IF phase = "down" THEN maxWaitSeconds ELSE ScaleUpTries

\* step 1: fetch the workload
ScaleGet ==
  /\ pc = "scale_get"
  /\ \E r \in GetOutcomes(targetKind, targetName) :
       /\ log' = Append(log, Call("Get", targetKind, -1))
       /\ apiFailed' = (apiFailed \/ IsFailure(r))
       /\ CASE GetWorkload(r) = "ok" ->
                 /\ originalReplicas' = OriginalReplicas(targetKind)
                 /\ desiredBefore' = desired[targetKind]
                 /\ Continue("down_getscale")
            [] GetWorkload(r) = "notfound" ->
                 /\ Finish("error", Err("notfound"))
                 /\ UNCHANGED <<originalReplicas, desiredBefore>>
            [] GetWorkload(r) = "error" ->
                 /\ Finish("error", Err(r))
                 /\ UNCHANGED <<originalReplicas, desiredBefore>>
            [] OTHER ->
                 /\ Finish("panic", Err(r))
                 /\ UNCHANGED <<originalReplicas, desiredBefore>>
  /\ UNCHANGED <<cluster, options, scale, i, fetches, hit>>

\* a ScaleStatefulSet that calls the Deployment functions
ScaleClientDeployment(kind) == "deployment"

\* the client the cycle of a kind calls for the scale: Deployments(ns) in
\* UpdateDeploymentScale and WaitForDeploymentReplicas, StatefulSets(ns) in
\* UpdateStatefulSetScale and WaitForStatefulSetReplicas
ScaleClient(kind) == kind

\* Update*Scale, first call: GetScale, then scale.Spec.Replicas = replicas
UpdateScaleGet(phase) ==
  /\ pc = phase \o "_getscale"
  /\ \E r \in ScaleOutcomes :
       /\ log' = Append(log, Call("GetScale", ScaleClient(targetKind), -1))
       /\ apiFailed' = (apiFailed \/ IsFailure(r))
       /\ IF r = "ok"
            THEN /\ scale' = [spec |-> Target(phase),
                            status |-> observed[ScaleClient(targetKind)],
                            read |-> desired[ScaleClient(targetKind)]]
                 /\ Continue(phase \o "_update")
            ELSE /\ Finish("panic", Err("api"))
                 /\ UNCHANGED scale
  /\ UNCHANGED <<cluster, options, originalReplicas, i, fetches, hit,
                 desiredBefore>>

\* an API that applies a write only to the count its writer read: a write
\* made after another client's is answered without being applied
ApplyScaleIfUnchanged(k, n) ==
  IF desired[k] = scale.read THEN [desired EXCEPT ![k] = n] ELSE desired

\* what an accepted UpdateScale does to the cluster: the desired count of the
\* workload becomes the count written, whatever it was before
ApplyScale(k, n) == [desired EXCEPT ![k] = n]

\* Update*Scale, second call: UpdateScale; then the wait starts with i = 0
UpdateScalePut(phase) ==
  /\ pc = phase \o "_update"
  /\ \E r \in ScaleOutcomes :
       /\ log' = Append(log, Call("UpdateScale", ScaleClient(targetKind),
                                   scale.spec))
       /\ apiFailed' = (apiFailed \/ IsFailure(r))
       /\ IF r = "ok"
            THEN /\ desired' = ApplyScale(ScaleClient(targetKind), scale.spec)
                 /\ i' = 0
                 /\ Continue(phase \o "_wait")
            ELSE /\ Finish("panic", Err("api"))
                 /\ UNCHANGED <<desired, i>>
  /\ scale' = NoScale
  /\ UNCHANGED <<exists, observed, extWrites, options, originalReplicas,
                 fetches, hit, desiredBefore>>

\* a cycle that sets the scale back to 0 when the scale-up wait fails
WaitFailedRollback(phase) ==
  IF phase = "up"
    THEN Continue("down_getscale")
    ELSE Finish("panic", TimeoutErr(Target(phase)))

\* a caller that returns the error of a wait
WaitFailedReturned(phase) == Finish("error", TimeoutErr(Target(phase)))

\* the caller of the wait panics with the error the wait returned
WaitFailed(phase) == Finish("panic", TimeoutErr(Target(phase)))

\* what an attempt of the wait reads as scale.Status.Replicas: the error of
\* GetScale is dropped, and the Scale it returns with an error is the empty
\* one (replicas 0)
Seen(r, k) == IF r = "ok" THEN observed[k] ELSE 0

\* the test that ends the wait
Reached(seen, replicas) == seen = replicas

\* WaitFor*Replicas: one attempt of the loop (GetScale, the test, the sleep
\* and i++); the last failed attempt returns the error, which the caller
\* turns into a panic. The error of GetScale is dropped and the Scale read
\* all the same: a failed GetScale gives either the empty Scale ("errZero")
\* or no Scale, and then the read of scale.Status panics ("errNil")
WaitForReplicas(phase) ==
  /\ pc = phase \o "_wait"
  /\ i < Tries(phase)
  /\ \E r \in {"ok", "errZero", "errNil"} :
       /\ log' = Append(log, Call("GetScale", ScaleClient(targetKind), -1))
       /\ apiFailed' = (apiFailed \/ IsFailure(r))
       /\ fetches' = [fetches EXCEPT ![phase] = @ + 1]
       /\ hit' = [hit EXCEPT ![phase] =
                    @ \/ (r = "ok" /\ observed[ScaleClient(targetKind)]
                                        = Target(phase))]
       /\ IF r = "errNil"
            THEN /\ Finish("panic", Err("nilderef"))
                 /\ UNCHANGED i
          ELSE IF Reached(Seen(r, ScaleClient(targetKind)), Target(phase))
            THEN /\ UNCHANGED i
                 /\ IF phase = "down"
                      THEN Continue("up_getscale")
                      ELSE Finish("success", NoErr)
          ELSE /\ i' = i + 1
               /\ IF i + 1 < Tries(phase)
                    THEN Continue(pc)
                    ELSE WaitFailed(phase)
  /\ UNCHANGED <<cluster, options, originalReplicas, scale, desiredBefore>>

\* ------------------------------------------------------------ the cluster
\* the cluster is followed while the run works on its workload
InCycle(k) == result = "running" /\ originalReplicas >= 0 /\ k = targetKind

\* the controller of a workload brings the observed count one replica
\* nearer to the desired count
Reconcile(k) ==
  /\ InCycle(k)
  /\ exists[k]
  /\ observed[k] # desired[k]
  /\ observed' = [observed EXCEPT ![k] =
                    IF observed[k] < desired[k] THEN @ + 1 ELSE @ - 1]
  /\ UNCHANGED <<exists, desired, extWrites, pc, options, locals, result, err, exitCode, history>>

\* another client writes the scale of a workload
ExternalWrite(k) ==
  /\ InCycle(k)
  /\ exists[k]
  /\ extWrites < MaxExtWrites
  /\ \E n \in (0..MaxReplicas) \ {desired[k]} :
       desired' = [desired EXCEPT ![k] = n]
  /\ extWrites' = extWrites + 1
  /\ UNCHANGED <<exists, observed, pc, options, locals, result, err, exitCode, history>>

Next ==
  \/ Complete
  \/ RunBegin
  \/ RunResolveDeployment
  \/ RunResolveStatefulSet
  \/ ScaleGet
  \/ UpdateScaleGet("down")
  \/ UpdateScalePut("down")
  \/ WaitForReplicas("down")
  \/ UpdateScaleGet("up")
  \/ UpdateScalePut("up")
  \/ WaitForReplicas("up")
  \/ \E k \in Kinds : Reconcile(k)
  \/ \E k \in Kinds : ExternalWrite(k)

Spec == Init /\ [][Next]_vars

\* the steps of the program, without those of the cluster
Step ==
  \/ Complete
  \/ RunBegin
  \/ RunResolveDeployment
  \/ RunResolveStatefulSet
  \/ ScaleGet
  \/ UpdateScaleGet("down")
  \/ UpdateScalePut("down")
  \/ WaitForReplicas("down")
  \/ UpdateScaleGet("up")
  \/ UpdateScalePut("up")
  \/ WaitForReplicas("up")

\* the program is one sequential thread: every call it makes returns and
\* every one-second sleep ends, so a step that is possible is taken
FairSpec == Spec /\ WF_vars(Step)

\* ================================================================ claims
\* the scale-updates issued so far, in order
Updates == SelectSeq(log, LAMBDA c : c.op = "UpdateScale")

\* n polls of the scale of the target
Polls(n) == [j \in 1..n |-> Call("GetScale", targetKind, -1)]

\* the request named no kind
BareName ==
  /\ Len(args) = 1
  /\ ~HasPrefix(args[1], PrefixDeployment)
  /\ ~HasPrefix(args[1], PrefixDeploy)
  /\ ~HasPrefix(args[1], PrefixStatefulset)
  /\ ~HasPrefix(args[1], PrefixSts)

\* the lookups of the kind resolution that led to the cycle
ResolveLog ==
  IF ~BareName THEN <<>>
  ELSE IF targetKind = "deployment" THEN <<Call("Get", "deployment", -1)>>
  ELSE <<Call("Get", "deployment", -1), Call("Get", "statefulset", -1)>>

\* C1: a run that reports success ends with the observed replica count of
\* the workload equal to originalReplicas (no other client writing).
\* The code breaks it: a wait attempt whose GetScale failed reads 0.
C1_SuccessEndsAtOriginal ==
  (result = "success" /\ extWrites = 0)
    => observed[targetKind] = originalReplicas

\* C2: after a run that reports success, with no other client writing and
\* no API call failing, the desired replica count of the workload is the
\* one it had when the cycle started.
\* The code breaks it: it restores the observed count, not the desired one.
C2_DesiredCountRestored ==
  (result = "success" /\ extWrites = 0 /\ ~apiFailed)
    => desired[targetKind] = desiredBefore

\* C3: the scale-down wait is left while the observed replica count of the
\* workload is not 0 only by failing the run, so that the update back to
\* originalReplicas is never issued before the observed count was 0.
\* The code breaks it: an attempt whose GetScale failed counts as 0, and the
\* run goes on to the scale-up.
C3_NoScaleUpBeforeZero ==
  [][(pc = "down_wait" /\ observed[targetKind] # 0 /\ pc' # "down_wait")
       => (pc' = "done" /\ result' = "panic")]_vars

\* C4: a finished run in which no API call failed, a poll of the first wait
\* was answered 0 and a poll of the second wait was answered
\* originalReplicas has made exactly the calls: (the lookups of the kind
\* resolution,) Get, GetScale and UpdateScale(0), at most maxWaitSeconds
\* polls, GetScale and UpdateScale(originalReplicas), at most 60 polls; and
\* it ended in success.
C4_ExpectedLog ==
  ResolveLog
    \o <<Call("Get", targetKind, -1)>>
    \o <<Call("GetScale", targetKind, -1), Call("UpdateScale", targetKind, 0)>>
    \o Polls(fetches.down)
    \o <<Call("GetScale", targetKind, -1),
          Call("UpdateScale", targetKind, originalReplicas)>>
    \o Polls(fetches.up)

C4_HappyPath ==
  (pc = "done" /\ ~apiFailed /\ originalReplicas >= 0 /\ hit.down /\ hit.up)
    => /\ result = "success"
       /\ log = C4_ExpectedLog
       /\ fetches.down \in 1..maxWaitSeconds
       /\ fetches.up \in 1..ScaleUpTries

\* the scenario of the spec: 0 is seen on the 2nd poll, the original count
\* on the 1st; here on a bare name resolved to a Deployment
C4_Witness ==
  /\ result = "success"
  /\ ~apiFailed
  /\ BareName
  /\ targetKind = "deployment"
  /\ originalReplicas = 1
  /\ fetches = [down |-> 2, up |-> 1]
  /\ log = C4_ExpectedLog

\* C5: for a bare name the first call is the lookup of the Deployment; when
\* the cluster holds a Deployment of that name every call of the cycle is on
\* the Deployment, whether or not it holds a StatefulSet too; the kind is
\* resolved to StatefulSet only after both lookups, when the cluster holds
\* no such Deployment and holds the StatefulSet.
C5_DeploymentFirst ==
  BareName =>
    /\ log # <<>> => log[1] = Call("Get", "deployment", -1)
    /\ Exists("deployment", targetName) =>
         /\ targetKind \in {"unknown", "deployment"}
         /\ \A j \in 1..Len(log) : log[j].kind = "deployment"
    /\ targetKind = "deployment" =>
         /\ Exists("deployment", targetName)
         /\ \A j \in 1..Len(log) : log[j].kind = "deployment"
    /\ targetKind = "statefulset" =>
         /\ Len(log) >= 2
         /\ log[2] = Call("Get", "statefulset", -1)
         /\ ~Exists("deployment", targetName)
         /\ Exists("statefulset", targetName)
         /\ \A j \in 3..Len(log) : log[j].kind = "statefulset"

\* a bare name, both kinds in the cluster: the cycle ran on the Deployment
C5_Witness ==
  /\ BareName
  /\ exists = [k \in Kinds |-> TRUE]
  /\ targetKind = "deployment"
  /\ result = "success"
  /\ Len(Updates) = 2

\* C6: for a bare name of which the cluster holds neither a Deployment nor a
\* StatefulSet, no scale-update is ever issued, and the run, when the two
\* lookups are answered (no API failure), ends after them with the returned
\* error NotFound.
C6_NeitherNotFound ==
  (BareName /\ pc # "complete" /\ config = "ok" /\ ~InvalidWait(flagWait)
     /\ ~Exists("deployment", targetName) /\ ~Exists("statefulset", targetName))
    => /\ Updates = <<>>
       /\ originalReplicas = -1
       /\ (pc = "done" /\ ~apiFailed) =>
            /\ result = "error"
            /\ err = Err("notfound")
            /\ log = <<Call("Get", "deployment", -1), Call("Get", "statefulset", -1)>>

C6_Witness ==
  /\ args = <<NameX>>
  /\ exists = [k \in Kinds |-> FALSE]
  /\ pc = "done"
  /\ result = "error"
  /\ err = Err("notfound")
  /\ Len(log) = 2

\* C7: once Complete has run on a request with --max-wait-seconds <= 0 or
\* with a number of arguments other than one, the run is over without
\* success and without any API call; it ended with the returned validation
\* error whenever the configuration and the context could be loaded.
C7_RejectedBeforeApi ==
  (pc # "complete" /\ (flagWait <= 0 \/ Len(args) # 1))
    => /\ pc = "done"
       /\ result \in {"error", "panic"}
       /\ log = <<>>
       /\ config \in {"ok", "clientError"} =>
            (result = "error" /\ err = Err("validation"))

C7_Witness ==
  /\ pc = "done"
  /\ config = "ok"
  /\ flagWait = 0
  /\ args = <<PrefixDeployment \o NameX>>
  /\ err = Err("validation")
  /\ log = <<>>

\* C8: when Complete accepts the argument, the argument is one of the four
\* prefixes followed by o.targetName, with o.targetKind the kind of that
\* prefix (deployment for deployment/ and deploy/, statefulset for
\* statefulset/ and sts/), or it starts with none of them and is
\* o.targetName itself, with kind unknown.
C8_PrefixStripped ==
  pc = "run" =>
    \/ args[1] = PrefixDeployment \o targetName /\ targetKind = "deployment"
    \/ args[1] = PrefixDeploy \o targetName /\ targetKind = "deployment"
    \/ args[1] = PrefixStatefulset \o targetName /\ targetKind = "statefulset"
    \/ args[1] = PrefixSts \o targetName /\ targetKind = "statefulset"
    \/ BareName /\ args[1] = targetName /\ targetKind = "unknown"

\* deploy/sts/x names the Deployment sts/x: one prefix is removed, once
C8_Witness ==
  /\ pc = "run"
  /\ args = <<PrefixDeploy \o PrefixSts \o NameX>>
  /\ targetName = PrefixSts \o NameX
  /\ targetKind = "deployment"

C10_NoRollback ==
  /\ Len(Updates) <= 2
  /\ \A j \in 1..Len(Updates) : Updates[j].kind = targetKind
  /\ Len(Updates) >= 1 => Updates[1].replicas = 0
  /\ Len(Updates) >= 2 =>
       /\ Updates[2].replicas = originalReplicas
       /\ log[Len(log) - fetches.up] = Updates[2]

\* the scale-up wait failed: two updates, and the desired count left as set
C10_Witness ==
  /\ result = "panic"
  /\ err = TimeoutErr(1)
  /\ fetches.up = ScaleUpTries
  /\ Len(Updates) = 2
  /\ desired[targetKind] = 1
  /\ observed[targetKind] = 0

\* ---------------------------------------------------------------------
\* C11: the process exits with code 0 exactly when the cycle reported
\* success, and with a non-zero code on every failure path: a validation
\* error, a context error, not-found, an API error, and a timeout of either
\* wait.  While the process runs it has no exit code.
FailureKinds ==
  {"config", "validation", "context", "notfound", "status", "transport",
   "api", "timeout", "nilderef"}

C11_ExitCode ==
  /\ (exitCode = 0) <=> (result = "success")
  /\ (pc = "done") <=> (exitCode >= 0)
  /\ (pc = "done" /\ result # "success")
       => (err.kind \in FailureKinds /\ exitCode > 0)
  /\ (err.kind \in FailureKinds) => (pc = "done" /\ exitCode > 0)

\* the scale-up wait timed out after the scale-down wait had succeeded, and
\* the process exited with a non-zero code
C11_Witness ==
  /\ pc = "done"
  /\ err = TimeoutErr(originalReplicas)
  /\ originalReplicas > 0
  /\ fetches.up = ScaleUpTries
  /\ exitCode > 0

\* ---------------------------------------------------------------------
\* C12: provided every call to the API returns, every run ends, in success,
\* in an error or in a timeout, and the two waits together make at most
\* maxWaitSeconds + 60 poll attempts (at most maxWaitSeconds the first, at
\* most 60 the second); no run polls forever.
C12_Termination ==
  /\ <>(pc = "done")
  /\ [](fetches.down + fetches.up > 0
         => /\ fetches.down <= maxWaitSeconds
            /\ fetches.up <= ScaleUpTries
            /\ fetches.down + fetches.up <= maxWaitSeconds + ScaleUpTries)

\* a run that made every poll attempt it can make: the scale-down wait
\* succeeded on its last attempt and the scale-up wait timed out
C12_Witness ==
  /\ pc = "done"
  /\ maxWaitSeconds = MaxWaitSeconds
  /\ fetches.down = maxWaitSeconds
  /\ fetches.up = ScaleUpTries

\* ---------------------------------------------------------------------
\* the fetch of step 1 (the Get of ScaleDeployment / ScaleStatefulSet, made
\* once the kind is known) ended in an error
Step1Failed ==
  /\ pc = "done"
  /\ targetKind \in Kinds
  /\ originalReplicas = -1
  /\ err.kind \in {"notfound", "status", "transport"}

\* C13, as claimed: any error of the initial workload fetch, not-found, a
\* server status error or a transport error, is a returned error, and no
\* scale-update has been issued.
C13_FetchErrorReturned ==
  Step1Failed => (result = "error" /\ Updates = <<>>)

\* C13, amended: a not-found or a server status error of the initial fetch
\* is a returned error (exit code 1); any other error of the fetch, such as
\* a transport error, is a panic inside GetDeployment / GetStatefulSet; in
\* every case the only calls made are Gets and no scale-update has been
\* issued.
C13_FetchErrorSurfaced ==
  Step1Failed
    => /\ Updates = <<>>
       /\ \A j \in 1..Len(log) : log[j].op = "Get"
       /\ log[Len(log)] = Call("Get", targetKind, -1)
       /\ err.kind \in {"notfound", "status"}
            => (result = "error" /\ exitCode = 1)
       /\ err.kind = "transport" => (result = "panic" /\ exitCode = 2)

\* the initial fetch of a workload given with its kind ended in a transport
\* error
C13_Witness ==
  /\ Step1Failed
  /\ ~BareName
  /\ err = Err("transport")
  /\ result = "panic"
  /\ log = <<Call("Get", targetKind, -1)>>

\* ---------------------------------------------------------------------
\* C14: a wait returns success on an attempt only if that attempt's fetch
\* of the scale succeeded and answered the target count; an attempt whose
\* fetch failed never counts as convergence.  Hence once the scale-down wait
\* has returned success (the run is in its scale-up half) some attempt of it
\* was answered 0, and once the run reported success some attempt of the
\* scale-up wait was answered originalReplicas.
C14_SuccessOnlyOnFetchedTarget ==
  /\ (pc \in {"up_getscale", "up_update", "up_wait"} \/ fetches.up > 0)
       => hit.down
  /\ result = "success" => (hit.down /\ hit.up)

\* ---------------------------------------------------------------------
\* steps 2-5 have begun: a GetScale or an UpdateScale has been called
StepsBegun == \E j \in 1..Len(log) : log[j].op \in {"GetScale", "UpdateScale"}

\* C15: a failure of a scale-update or of a wait in steps 2-5 ends the run
\* in a panic (abnormal termination of the process), never in a returned
\* error, and once the run has ended no further call to the API is made.
C15_FatalAfterStep1 ==
  /\ [](/\ (pc = "done" /\ StepsBegun /\ result # "success")
             => /\ result = "panic"
                /\ err.kind \in {"api", "timeout", "nilderef"}
                /\ exitCode = 2
        /\ err.kind \in {"api", "timeout", "nilderef"}
             => (StepsBegun /\ result = "panic")
        /\ result = "error" => ~StepsBegun)
  /\ [][result # "running" => log' = log]_vars

\* the scale-update of step 4 failed: the run ended in a panic and the
\* failed call is the last one made
C15_Witness ==
  /\ result = "panic"
  /\ err = Err("api")
  /\ Len(Updates) = 2
  /\ log[Len(log)] = Call("UpdateScale", targetKind, originalReplicas)
  /\ desired[targetKind] = 0

\* ---------------------------------------------------------------------
\* another client wrote the scale of the workload after the GetScale of the
\* update step of the given phase and before its UpdateScale
WrittenBetween(phase) ==
  /\ pc = phase \o "_update"
  /\ desired[targetKind] # scale.read

\* C16: the scale-update makes no version check.  Whatever another client
\* wrote between the GetScale and the UpdateScale of an update step, the
\* step calls UpdateScale with its target count, and an UpdateScale the API
\* accepts makes the desired count the target, replacing the other client's
\* count; the only other end of the step is the panic on an error of the
\* API, which leaves the desired count as it was.
C16_NoVersionCheck ==
  [][\A phase \in {"down", "up"} :
       (pc = phase \o "_update" /\ log' # log)
         => /\ log' = Append(log, Call("UpdateScale", targetKind, Target(phase)))
            /\ \/ /\ pc' = phase \o "_wait"
                  /\ desired'[targetKind] = Target(phase)
               \/ /\ result' = "panic"
                  /\ err' = Err("api")
                  /\ desired' = desired]_vars

\* another client changed the desired count inside the scale-up update step
\* to a count other than the target, and the step in which the run's write
\* is accepted and replaces that count is possible
C16_Witness ==
  /\ WrittenBetween("up")
  /\ extWrites > 0
  /\ desired[targetKind] # originalReplicas
  /\ ENABLED (/\ UpdateScalePut("up")
              /\ pc' = "up_wait"
              /\ desired'[targetKind] = originalReplicas)

\* ---------------------------------------------------------------------
\* C17: kind resolution for a bare name when a lookup fails with an error
\* other than not-found.  If the Deployment lookup fails so, the StatefulSet
\* lookup is not attempted; if the Deployment is not found and the
\* StatefulSet lookup fails so, the kind is not resolved; in both cases the
\* run ends in failure (a returned error for a status error, a panic for
\* any other) and no scale-update is issued.
C17_FailedLookup ==
  (BareName /\ targetKind = "unknown" /\ apiFailed)
    => /\ pc = "done"
       /\ result \in {"error", "panic"}
       /\ exitCode > 0
       /\ err.kind \in {"status", "transport"}
       /\ (err.kind = "status") <=> (result = "error")
       /\ Updates = <<>>
       /\ originalReplicas = -1
       /\ \/ log = <<Call("Get", "deployment", -1)>>
          \/ /\ log = <<Call("Get", "deployment", -1),
                         Call("Get", "statefulset", -1)>>
             /\ ~Exists("deployment", targetName)

\* the Deployment lookup of a bare name failed with a status error while a
\* StatefulSet of that name exists: the StatefulSet was not looked up
C17_Witness ==
  /\ BareName
  /\ targetKind = "unknown"
  /\ Exists("statefulset", targetName)
  /\ err = Err("status")
  /\ result = "error"
  /\ log = <<Call("Get", "deployment", -1)>>

\* ---------------------------------------------------------------------
\* the argument names its kind
ExplicitKind == Len(args) = 1 /\ ~BareName /\ targetKind \in Kinds

\* C18: a cycle touches only the one resolved workload.  Once the kind is
\* known, every further Get, GetScale and UpdateScale is issued on that
\* kind; with an explicit kind prefix the other kind is never called at all;
\* a bare name resolved to Deployment has made no call on the StatefulSet,
\* and one resolved to StatefulSet has made on the Deployment only the first
\* lookup.  No step of the run changes the scale (desired or observed count)
\* of the workload of the other kind.
C18_OnlyResolvedWorkload ==
  /\ [](/\ ExplicitKind
             => \A j \in 1..Len(log) : log[j].kind = targetKind
        /\ (BareName /\ targetKind \in Kinds)
             => /\ Len(log) >= Len(ResolveLog)
                /\ SubSeq(log, 1, Len(ResolveLog)) = ResolveLog
                /\ \A j \in (Len(ResolveLog) + 1)..Len(log) :
                      log[j].kind = targetKind)
  /\ [][\A k \in Kinds :
          k # targetKind'
            => (desired'[k] = desired[k] /\ observed'[k] = observed[k])]_vars

\* a StatefulSet given as sts/x went through the whole cycle beside a
\* Deployment of the same name, whose scale is what it was
C18_Witness ==
  /\ ExplicitKind
  /\ targetKind = "statefulset"
  /\ exists["deployment"]
  /\ result = "success"
  /\ Len(Updates) = 2
  /\ originalReplicas = 1
  /\ desiredBefore = 1
  /\ extWrites = 0
  /\ desired["deployment"] = 1
  /\ observed["deployment"] = 1
====
